---- MODULE Spec2Model ----
(***************************************************************************)
(* The meta-review system of src/meta_review/data.py: MetaReviewHandler    *)
(* normalizes a feed of review comments and reactions, loads them against  *)
(* the Django tables Participant / Comment / Reaction, and recomputes      *)
(* score, rank, weight factor and last_active_at of every participant.     *)
(*                                                                         *)
(* Numbers.  Scores and weight factors are Python floats.  They are        *)
(* modelled in fixed point, in thousandths: 1000 is 1.0, 50 is 0.05.       *)
(* Timestamps are positive integers; None is NoTime.  A null foreign key   *)
(* or a null integer is Null / 0 as stated at each field.                  *)
(*                                                                         *)
(* The feed.  Between runs the feed grows: a comment is written, edited,   *)
(* reacted to.  It holds the comments of CommentOrder and the reactions of *)
(* ReactionOrder, by the people of Logins, at the instants of Times.  Each *)
(* run is started on the whole feed as it then is.  Under SpecChurn the    *)
(* snapshots also lose entries: a reaction is withdrawn, a comment leaves. *)
(* Under SpecFaulty a save() of a dump loop may raise.                     *)
(*                                                                         *)
(* The stages of handle() are the actions; pc names the stage to come.  An *)
(* exception that no stage catches ends the run at pc = "crashed", with    *)
(* the tables as the stages before it left them.                           *)
(***************************************************************************)
EXTENDS Integers, Sequences, FiniteSets, TLC

(* ------------------------------ bounds --------------------------------- *)
MaxRuns == 3
MaxTime == 2
FaultyRuns == 1      \* under SpecFaulty, the runs in which a save() may raise

(* ------------------------- program constants --------------------------- *)
NoTime == 0          \* parse_time(None) = None
One == 1000          \* max_score = 1.0
C1 == 50             \* c1 = 0.05
C2 == 200            \* c2 = 0.2
Penalty == 500       \* 0.5 point deducted for punishment
Slope == 900         \* weight_factor *= 0.9
Floor == 100         \* weight_factor += 0.1
DefaultWeightFactor == 0

(* --------------------------- the feed universe ------------------------- *)
Empty == ""                          \* the login of a deleted account
Logins == {"a", "b", Empty}
CommentOrder == <<"c1">>             \* ids, in the order the feed lists them
ReactionOrder == <<"r1", "r2">>
Contents == {"THUMBS_UP", "THUMBS_DOWN", "HEART"}
Null == "NULL"                       \* a null foreign key
Times == 1..MaxTime

Range(s) == {s[i] : i \in 1..Len(s)}
CommentIds == Range(CommentOrder)
ReactionIds == Range(ReactionOrder)

\* The keys of S in the order `order` lists them (dict insertion order of a
\* feed that lists ids in that order; the order of an unordered queryset).
Ordered(S, order) == SelectSeq(order, LAMBDA x : x \in S)

VARIABLES
    feed,            \* the external feed: comments and reactions that exist
    db_participants, \* table Participant, keyed by login
    db_comments,     \* table Comment, keyed by id
    db_reactions,    \* table Reaction, keyed by id
    pc,              \* the stage handle() executes next
    runs,            \* number of runs started
    comments,        \* self.comments
    reactions,       \* self.reactions
    participants,    \* self.participants
    scratch,         \* Comment objects reached through reaction.review
    before,          \* self.participants as the last stage found them
    start,           \* table Comment as this run found it
    last_feed,       \* the feed the previous run was started on
    repeat           \* this run follows a complete run on the same feed

vars == <<feed, db_participants, db_comments, db_reactions, pc, runs, comments,
          reactions, participants, scratch, before, start, last_feed, repeat>>

NoMap == [x \in {} |-> x]    \* an empty dict / an empty table

\* f with the entries of g added or replaced
Override(f, g) ==
    [x \in DOMAIN f \cup DOMAIN g |-> IF x \in DOMAIN g THEN g[x] ELSE f[x]]

\* f without the keys of S
Without(f, S) == [x \in DOMAIN f \ S |-> f[x]]

(* ------------------------------ the feed ------------------------------- *)
\* A JSON timestamp string is <<t>>; an absent one (null) is <<>>.
parse_time(time) == IF time = <<>> THEN NoTime ELSE time[1]

\* The raw reaction records of comment c, in feed order.
RawReactions(f, c) ==
    LET ids == Ordered({r \in DOMAIN f.reactions : f.reactions[r].comment = c},
                       ReactionOrder)
    IN [i \in 1..Len(ids) |->
           [id |-> ids[i],
            createdAt |-> <<f.reactions[ids[i]].createdAt>>,
            content |-> f.reactions[ids[i]].content,
            user |-> [login |-> f.reactions[ids[i]].user]]]

\* The raw comment record of comment c.
RawComment(f, c) ==
    [id |-> c,
     createdAt |-> <<f.comments[c].createdAt>>,
     lastEditedAt |-> IF f.comments[c].lastEditedAt = NoTime THEN <<>>
                      ELSE <<f.comments[c].lastEditedAt>>,
     author |-> [login |-> f.comments[c].author],
     reactions |-> RawReactions(f, c)]

\* parsed_json['issues']: one issue that is no pull request, then one pull
\* request per comment.
Content(f) ==
    LET ids == Ordered(DOMAIN f.comments, CommentOrder)
    IN <<[pullRequest |-> <<>>]>> \o
       [i \in 1..Len(ids) |->
           [pullRequest |-> <<[comments |-> <<RawComment(f, ids[i])>>]>>]]

(* ------------------- the models (meta_review.models) ------------------- *)
\* A row as get_or_create / bulk_create inserts it: the field defaults.
\* rank 0 is "no rank yet" (the code tests `if participant.rank`); trend is
\* <<>> while unset and <<d>> once set.
NewParticipant(login) ==
    [login |-> login, score |-> 0, rank |-> 0, trend |-> <<>>,
     weight_factor |-> DefaultWeightFactor,
     pos_in |-> 0, weighted_pos_in |-> 0, pos_out |-> 0,
     neg_in |-> 0, weighted_neg_in |-> 0, neg_out |-> 0,
     last_active_at |-> NoTime, punishment |-> 0]

NewComment(id) ==
    [id |-> id, created_at |-> NoTime, last_edited_at |-> NoTime, author |-> Null,
     score |-> 0, pos |-> 0, neg |-> 0, weighted_pos |-> 0, weighted_neg |-> 0]

NewReaction(id) ==
    [id |-> id, created_at |-> NoTime, content |-> "", giver |-> Null,
     receiver |-> Null, review |-> Null]

\* comment.reaction_set.all(), participant.receive.all(), participant.give.all(),
\* participant.comment_set.all(): the rows that hold the foreign key.
reaction_set(dbr, c) == {r \in DOMAIN dbr : dbr[r].review = c}
receive(dbr, login) == {r \in DOMAIN dbr : dbr[r].receiver = login}
give(dbr, login) == {r \in DOMAIN dbr : dbr[r].giver = login}
comment_set(dbc, login) == {c \in DOMAIN dbc : dbc[c].author = login}

(* ----------------------- MetaReviewHandler.__init__ -------------------- *)
\* The comments of the issues that carry a pull request, in feed order.
RECURSIVE PullRequestComments(_)
PullRequestComments(content) ==
    IF content = <<>> THEN <<>>
    ELSE (IF Head(content).pullRequest = <<>> THEN <<>>
          ELSE Head(content).pullRequest[1].comments)
         \o PullRequestComments(Tail(content))

\* A dict built by assigning seq[i] under key seq[i].id, for i = 1, 2, ...:
\* a later record replaces an earlier one of the same id.
DictById(seq) ==
    [id \in {seq[i].id : i \in 1..Len(seq)} |->
        seq[CHOOSE i \in 1..Len(seq) :
                /\ seq[i].id = id
                /\ \A j \in (i + 1)..Len(seq) : seq[j].id # id]]

\* self.comments: every comment, its times parsed.
NormalizeComments(content) ==
    LET cs == PullRequestComments(content)
    IN DictById([i \in 1..Len(cs) |->
           [id |-> cs[i].id,
            createdAt |-> parse_time(cs[i].createdAt),
            lastEditedAt |-> parse_time(cs[i].lastEditedAt),
            author |-> cs[i].author,
            reactions |-> cs[i].reactions]])

\* The reactions of comment record c, stamped with receiver and comment_id.
StampedReactions(c) ==
    [i \in 1..Len(c.reactions) |->
        [id |-> c.reactions[i].id,
         createdAt |-> parse_time(c.reactions[i].createdAt),
         content |-> c.reactions[i].content,
         user |-> c.reactions[i].user,
         receiver |-> [login |-> c.author.login],
         comment_id |-> c.id]]

RECURSIVE Flatten(_)
Flatten(seqs) == IF seqs = <<>> THEN <<>> ELSE Head(seqs) \o Flatten(Tail(seqs))

\* self.reactions: the reactions of every comment of self.comments.
NormalizeReactions(cs) ==
    LET keys == Ordered(DOMAIN cs, CommentOrder)
    IN DictById(Flatten([i \in 1..Len(keys) |-> StampedReactions(cs[keys[i]])]))

\* The test that guards self.participants[user['login']] = user.
RegistersUser(author, user) == author.login # Empty

\* self.participants: the authors with a login, and the users of reactions.
NormalizeParticipants(cs) ==
    LET authors == {cs[c].author.login : c \in DOMAIN cs} \ {Empty}
        users == UNION {{cs[c].reactions[i].user.login :
                           i \in {j \in 1..Len(cs[c].reactions) :
                                    RegistersUser(cs[c].author,
                                                  cs[c].reactions[j].user)}} :
                        c \in DOMAIN cs}
    IN [l \in authors \cup users |-> [login |-> l]]

\* handle(): a run starts by constructing the handler on the fetched issues.
StartRun ==
    /\ pc \in {"idle", "done", "crashed"}
    /\ runs < MaxRuns
    /\ runs' = runs + 1
    /\ LET cs == NormalizeComments(Content(feed))
       IN /\ comments' = cs
          /\ reactions' = NormalizeReactions(cs)
          /\ participants' = NormalizeParticipants(cs)
    /\ scratch' = NoMap
    /\ before' = NoMap
    /\ start' = db_comments
    /\ last_feed' = feed
    /\ repeat' = (pc = "done" /\ last_feed = feed)
    /\ pc' = "load_participants"
    /\ UNCHANGED <<feed, db_participants, db_comments, db_reactions>>

(* -------------------- __load_participants_to_memory -------------------- *)
LoadParticipants ==
    /\ pc = "load_participants"
    /\ LET created == {participants[k].login : k \in DOMAIN participants}
                        \ DOMAIN db_participants
           table == Override(db_participants,
                             [l \in created |-> NewParticipant(l)])
           \* get_or_create by login, the object saved under the same key
           fetched == [k \in DOMAIN participants |-> table[participants[k].login]]
           \* the rows not in memory yet
           rest == DOMAIN table \ DOMAIN fetched
       IN /\ db_participants' = table
          /\ participants' = Override(fetched, [l \in rest |-> table[l]])
    /\ before' = participants
    /\ pc' = "load_comments"
    /\ UNCHANGED <<feed, db_comments, db_reactions, runs, comments, reactions,
                   scratch, start, last_feed, repeat>>

(* ------------------------------ helpers -------------------------------- *)
\* The sum of f[x] over x in S.
RECURSIVE Sum(_, _)
Sum(f, S) ==
    IF S = {} THEN 0
    ELSE LET x == CHOOSE y \in S : TRUE IN f[x] + Sum(f, S \ {x})

\* An uncaught exception ends the run; the handler and its dicts are dropped.
Abort ==
    /\ pc' = "crashed"
    /\ comments' = NoMap
    /\ reactions' = NoMap
    /\ participants' = NoMap
    /\ scratch' = NoMap
    /\ before' = NoMap

(* ------------------------ __check_comment_update ----------------------- *)
\* need_punishment after the loop over the comment's reactions.
need_punishment(last_edited_at, rs, dbr) ==
    \E r \in rs : last_edited_at # NoTime /\ last_edited_at > dbr[r].created_at

\* A check that punishes inside the loop, once per offending reaction.
punishments_per_reaction(last_edited_at, rs, dbr) ==
    Cardinality({r \in rs : last_edited_at # NoTime
                             /\ last_edited_at > dbr[r].created_at})

\* How many times the penalty is applied for one comment.
punishments(last_edited_at, rs, dbr) ==
    IF need_punishment(last_edited_at, rs, dbr) THEN 1 ELSE 0

\* A punishment that forgets its counter.
punish_uncounted(author, n) == [author EXCEPT !.score = @ - Penalty * n]

\* author.punishment += 0.5; author.score -= 0.5, n times.
punish(author, n) ==
    [author EXCEPT !.punishment = @ + Penalty * n, !.score = @ - Penalty * n]

(* ---------------------- __load_comments_to_memory ---------------------- *)
\* The Comment object c of Comment.objects.all(), refreshed from memory.
RefreshedComment(row, raw) ==
    [row EXCEPT !.created_at = raw.createdAt,
                !.last_edited_at = raw.lastEditedAt,
                !.author = IF raw.author.login # Empty THEN raw.author.login ELSE @]

LoadComments ==
    /\ pc = "load_comments"
    /\ LET new == DOMAIN comments \ DOMAIN db_comments
           \* bulk_create of Comment(id=...)
           table == Override(db_comments, [c \in new |-> NewComment(c)])
           \* self.comments[c.id] on a row that is not in the feed: KeyError
           missing == DOMAIN table \ DOMAIN comments
           fresh == [c \in DOMAIN table \cap DOMAIN comments |->
                        RefreshedComment(table[c], comments[c])]
           times == [c \in DOMAIN fresh |->
                        punishments(fresh[c].last_edited_at,
                                    reaction_set(db_reactions, c), db_reactions)]
           \* author.punishment on a comment without author: AttributeError
           orphan == {c \in DOMAIN fresh : times[c] > 0 /\ fresh[c].author = Null}
           \* c.author is the object of self.participants only when the feed
           \* names the author; an author read back from the table is another
           \* object, which is never saved.
           owned(l) == {c \in DOMAIN fresh :
                          comments[c].author.login # Empty /\ fresh[c].author = l}
       IN /\ db_comments' = table
          /\ IF missing # {} \/ orphan # {}
             THEN Abort
             ELSE /\ comments' = fresh
                  /\ participants' =
                        [l \in DOMAIN participants |->
                            punish(participants[l], Sum(times, owned(l)))]
                  /\ before' = participants
                  /\ pc' = "load_reactions"
                  /\ UNCHANGED <<reactions, scratch>>
    /\ UNCHANGED <<feed, db_participants, db_reactions, runs, start, last_feed, repeat>>

(* ---------------------- __load_reactions_to_memory --------------------- *)
\* The keys of self.reactions in insertion order: comment by comment.
ReactionKeys(rs) ==
    Flatten([i \in 1..Len(CommentOrder) |->
                Ordered({r \in DOMAIN rs : rs[r].comment_id = CommentOrder[i]},
                        ReactionOrder)])

\* The Reaction object of get_or_create, its fields set from memory.
LoadedReaction(row, raw) ==
    [row EXCEPT !.created_at = raw.createdAt,
                !.content = raw.content,
                !.giver = IF raw.user.login # Empty THEN raw.user.login ELSE @,
                !.receiver = IF raw.receiver.login # Empty
                             THEN raw.receiver.login ELSE @,
                !.review = raw.comment_id]

LoadReactions ==
    /\ pc = "load_reactions"
    /\ LET keys == ReactionKeys(reactions)
           \* self.participants[login] on a login that is no key: KeyError
           fails(r) == \/ /\ reactions[r].user.login # Empty
                          /\ reactions[r].user.login \notin DOMAIN participants
                       \/ /\ reactions[r].receiver.login # Empty
                          /\ reactions[r].receiver.login \notin DOMAIN participants
           failing == {i \in 1..Len(keys) : fails(keys[i])}
           first == IF failing = {} THEN Len(keys)
                    ELSE CHOOSE i \in failing : \A j \in failing : i <= j
           \* get_or_create has run for every key up to the failing one
           reached == {keys[i] : i \in 1..first}
           table == Override(db_reactions,
                             [r \in reached \ DOMAIN db_reactions |-> NewReaction(r)])
       IN /\ db_reactions' = table
          /\ IF failing # {}
             THEN Abort
             ELSE /\ reactions' = [r \in DOMAIN reactions |->
                                      LoadedReaction(table[r], reactions[r])]
                  /\ before' = participants
                  /\ pc' = "dump_participants"
                  /\ UNCHANGED <<comments, participants, scratch>>
    /\ UNCHANGED <<feed, db_participants, db_comments, runs, start, last_feed, repeat>>

(* ------------------------ __dump_*_to_database ------------------------- *)
\* The table after save() of every object of the dict.
\* `pk` names the primary-key field of the model: "login" or "id".
Saved(table, objects, pk) ==
    Override(table, [k \in {objects[x][pk] : x \in DOMAIN objects} |->
                        objects[CHOOSE x \in DOMAIN objects : objects[x][pk] = k]])

DumpParticipants ==
    /\ pc \in {"dump_participants", "final_dump_participants"}
    /\ db_participants' = Saved(db_participants, participants, "login")
    /\ pc' = IF pc = "dump_participants" THEN "dump_comments"
             ELSE "final_dump_comments"
    /\ before' = participants
    /\ UNCHANGED <<feed, db_comments, db_reactions, runs, comments, reactions,
                   participants, scratch, start, last_feed, repeat>>

DumpComments ==
    /\ pc \in {"dump_comments", "final_dump_comments"}
    /\ db_comments' = Saved(db_comments, comments, "id")
    /\ pc' = IF pc = "dump_comments" THEN "dump_reactions"
             ELSE "final_dump_reactions"
    /\ before' = participants
    /\ UNCHANGED <<feed, db_participants, db_reactions, runs, comments, reactions,
                   participants, scratch, start, last_feed, repeat>>

DumpReactions ==
    /\ pc \in {"dump_reactions", "final_dump_reactions"}
    /\ db_reactions' = Saved(db_reactions, reactions, "id")
    /\ pc' = IF pc = "dump_reactions" THEN "update_score" ELSE "done"
    /\ before' = participants
    /\ UNCHANGED <<feed, db_participants, db_comments, runs, comments, reactions,
                   participants, scratch, start, last_feed, repeat>>

(* ----------------------------- __update_score -------------------------- *)
\* A scoring loop that lost its filter.
skipped_never(last_active_at, created_at) == FALSE

\* "skip old reactions since they were counted before"
skipped(last_active_at, created_at) ==
    last_active_at # NoTime /\ created_at < last_active_at

\* content.find('THUMBS_UP') != -1, and the elif on 'THUMBS_DOWN'.  The
\* contents of the feed are the names of an enumeration, none of which
\* holds another.
IsPositive(content) == content = "THUMBS_UP"
IsNegative(content) == ~IsPositive(content) /\ content = "THUMBS_DOWN"

\* The reactions a participant's loops do not skip.
reactions_in(p, dbr) ==
    {r \in receive(dbr, p.login) : ~skipped(p.last_active_at, dbr[r].created_at)}
reactions_out(p, dbr) ==
    {r \in give(dbr, p.login) : ~skipped(p.last_active_at, dbr[r].created_at)}

\* The formula with its two coefficients exchanged.
score_delta_exchanged(p1, n1, p2, n2) == p1 - n1 + C2 * p2 + C1 * n2

\* s = p1 - n1 + c1 * p2 + c2 * n2
score_delta(p1, n1, p2, n2) == p1 - n1 + C1 * p2 + C2 * n2

\* A scoring loop that moves the checkpoint on as it folds reactions in.
ScoredParticipant_stamped(p, dbr, dbp) ==
    LET ins == reactions_in(p, dbr)
        outs == reactions_out(p, dbr)
        weight == [r \in ins |-> dbp[dbr[r].giver].weight_factor]
        pos == {r \in ins : IsPositive(dbr[r].content)}
        neg == {r \in ins : IsNegative(dbr[r].content)}
        p1 == Sum(weight, pos)
        n1 == Sum(weight, neg)
        p2 == Cardinality({r \in outs : IsPositive(dbr[r].content)})
        n2 == Cardinality({r \in outs : IsNegative(dbr[r].content)})
        times == {p.last_active_at} \cup {dbr[r].created_at : r \in ins \cup outs}
    IN [p EXCEPT !.pos_in = @ + Cardinality(pos),
                 !.weighted_pos_in = @ + p1,
                 !.pos_out = @ + p2,
                 !.neg_in = @ + Cardinality(neg),
                 !.weighted_neg_in = @ + n1,
                 !.neg_out = @ + n2,
                 !.score = @ + score_delta(p1, n1, p2, n2),
                 !.last_active_at = CHOOSE t \in times : \A x \in times : x <= t]

\* One participant after the body of the loop over self.participants.
ScoredParticipant(p, dbr, dbp) ==
    LET ins == reactions_in(p, dbr)
        outs == reactions_out(p, dbr)
        \* reaction.giver.weight_factor, read from the table
        weight == [r \in ins |-> dbp[dbr[r].giver].weight_factor]
        pos == {r \in ins : IsPositive(dbr[r].content)}
        neg == {r \in ins : IsNegative(dbr[r].content)}
        p1 == Sum(weight, pos)
        n1 == Sum(weight, neg)
        p2 == Cardinality({r \in outs : IsPositive(dbr[r].content)})
        n2 == Cardinality({r \in outs : IsNegative(dbr[r].content)})
    IN [p EXCEPT !.pos_in = @ + Cardinality(pos),
                 !.weighted_pos_in = @ + p1,
                 !.pos_out = @ + p2,
                 !.neg_in = @ + Cardinality(neg),
                 !.weighted_neg_in = @ + n1,
                 !.neg_out = @ + n2,
                 !.score = @ + score_delta(p1, n1, p2, n2)]

\* reaction.review after the update of the review comment: the Comment
\* object this Reaction object fetched through its foreign key.
ScoredReview(review, content, weight_factor) ==
    IF IsPositive(content)
    THEN [review EXCEPT !.pos = @ + 1,
                        !.weighted_pos = @ + weight_factor,
                        !.score = @ + weight_factor]
    ELSE [review EXCEPT !.neg = @ + 1,
                        !.weighted_neg = @ + weight_factor,
                        !.score = @ - weight_factor]

UpdateScore ==
    /\ pc = "update_score"
    /\ LET folded == UNION {reactions_in(participants[l], db_reactions) :
                              l \in DOMAIN participants}
           \* reaction.giver.weight_factor on a reaction without giver:
           \* AttributeError
           orphan == {r \in folded : db_reactions[r].giver = Null}
           counted == {r \in folded : \/ IsPositive(db_reactions[r].content)
                                      \/ IsNegative(db_reactions[r].content)}
       IN IF orphan # {}
          THEN Abort
          ELSE /\ participants' =
                     [l \in DOMAIN participants |->
                         ScoredParticipant(participants[l], db_reactions,
                                           db_participants)]
               /\ scratch' =
                     [r \in counted |->
                         ScoredReview(db_comments[db_reactions[r].review],
                                      db_reactions[r].content,
                                      db_participants[db_reactions[r].giver]
                                          .weight_factor)]
               /\ before' = participants
               /\ pc' = "update_rankings"
               /\ UNCHANGED <<comments, reactions>>
    /\ UNCHANGED <<feed, db_participants, db_comments, db_reactions, runs,
                   start, last_feed, repeat>>

(* ---------------------------- __update_rankings ------------------------ *)
\* Participant.objects.order_by('-score', '-pos_in'): the logins in an order
\* the query may return (rows equal in both fields come in any order).
Precedes(x, y) ==
    \/ x.score > y.score
    \/ x.score = y.score /\ x.pos_in >= y.pos_in

order_by(table) ==
    LET n == Cardinality(DOMAIN table)
    IN CHOOSE seq \in [1..n -> DOMAIN table] :
          /\ \A i, j \in 1..n : i # j => seq[i] # seq[j]
          /\ \A i, j \in 1..n : i < j => Precedes(table[seq[i]], table[seq[j]])

\* A rank loop that does not group equal scores.
NextRank_ungrouped(rank, last_score, score) == rank + 1

\* if rank == 0 or last_score != participant.score: rank += 1
NextRank(rank, last_score, score) ==
    IF rank = 0 \/ last_score # score THEN rank + 1 ELSE rank

\* A trend taken the other way round: rank (this time) - rank (last time).
Ranked_reversed(p, rank) ==
    [p EXCEPT !.trend = IF p.rank # 0 THEN <<rank - p.rank>> ELSE @,
              !.rank = rank]

\* trend and rank of one participant of the loop.
Ranked(p, rank) ==
    [p EXCEPT !.trend = IF p.rank # 0 THEN <<p.rank - rank>> ELSE @,
              !.rank = rank]

\* The loop over participants_all from position i on.
RECURSIVE RankLoop(_, _, _, _, _)
RankLoop(table, seq, i, rank, last_score) ==
    IF i > Len(seq) THEN table
    ELSE LET p == table[seq[i]]
             r == NextRank(rank, last_score, p.score)
         IN RankLoop([table EXCEPT ![seq[i]] = Ranked(p, r)], seq, i + 1, r,
                     IF r = rank THEN last_score ELSE p.score)

\* A rank stage that leaves the ranked rows out of self.participants.
UpdateRankings_unstored ==
    /\ pc = "update_rankings"
    /\ db_participants' = Saved(db_participants, participants, "login")
    /\ before' = participants
    /\ pc' = "update_weight_factors"
    /\ UNCHANGED <<feed, db_comments, db_reactions, runs, comments, reactions,
                   participants, scratch, start, last_feed, repeat>>

UpdateRankings ==
    /\ pc = "update_rankings"
    /\ LET table == Saved(db_participants, participants, "login")
           ranked == RankLoop(table, order_by(table), 1, 0, 0)
       IN /\ db_participants' = table
          \* self.participants[participant.login] = participant
          /\ participants' = Override(participants, ranked)
    /\ before' = participants
    /\ pc' = "update_weight_factors"
    /\ UNCHANGED <<feed, db_comments, db_reactions, runs, comments, reactions,
                   scratch, start, last_feed, repeat>>

(* ------------------------- __update_weight_factors --------------------- *)
\* A recalculation that never looks for the highest score.
MaxScore_unsearched(ps) == One

\* max_score after the first loop.
MaxScore(ps) ==
    LET S == {One} \cup {ps[l].score : l \in DOMAIN ps}
    IN CHOOSE m \in S : \A x \in S : x <= m

\* A recalculation without the branch for negative scores.
weight_factor_unguarded(score, max_score) ==
    (((score * One) \div max_score) * Slope) \div One + Floor

\* A recalculation that forgets to scale the quotient by 0.9.
weight_factor_unscaled(score, max_score) ==
    IF score < 0 THEN 0 ELSE (score * One) \div max_score + Floor

\* score / max_score, then *= 0.9, then += 0.1, in thousandths.
weight_factor(score, max_score) ==
    IF score < 0 THEN 0
    ELSE (((score * One) \div max_score) * Slope) \div One + Floor

UpdateWeightFactors ==
    /\ pc = "update_weight_factors"
    /\ participants' =
          [l \in DOMAIN participants |->
              [participants[l] EXCEPT
                  !.weight_factor = weight_factor(participants[l].score,
                                                  MaxScore(participants))]]
    /\ before' = participants
    /\ pc' = "update_time"
    /\ UNCHANGED <<feed, db_participants, db_comments, db_reactions, runs,
                   comments, reactions, scratch, start, last_feed, repeat>>

(* ------------------------------ __update_time -------------------------- *)
\* A loop that keeps the time it saw last, not the latest.
Later_latest(last_active_at, time) == time

\* last_active_at after one created_at of a loop.
Later(last_active_at, time) ==
    IF last_active_at = NoTime THEN time
    ELSE IF time > last_active_at THEN time ELSE last_active_at

\* last_active_at after one comment of the first loop.
LaterComment(last_active_at, c) ==
    LET created == Later(last_active_at, c.created_at)
    IN IF c.last_edited_at # NoTime /\ c.last_edited_at > created
       THEN c.last_edited_at ELSE created

RECURSIVE CommentsLoop(_, _, _)
CommentsLoop(last_active_at, seq, dbc) ==
    IF seq = <<>> THEN last_active_at
    ELSE CommentsLoop(LaterComment(last_active_at, dbc[Head(seq)]), Tail(seq), dbc)

RECURSIVE ReactionsLoop(_, _, _)
ReactionsLoop(last_active_at, seq, dbr) ==
    IF seq = <<>> THEN last_active_at
    ELSE ReactionsLoop(Later(last_active_at, dbr[Head(seq)].created_at),
                       Tail(seq), dbr)

NewLastActive(p, dbc, dbr) ==
    LET t1 == CommentsLoop(p.last_active_at,
                           Ordered(comment_set(dbc, p.login), CommentOrder), dbc)
        t2 == ReactionsLoop(t1, Ordered(give(dbr, p.login), ReactionOrder), dbr)
    IN ReactionsLoop(t2, Ordered(receive(dbr, p.login), ReactionOrder), dbr)

UpdateTime ==
    /\ pc = "update_time"
    /\ participants' =
          [l \in DOMAIN participants |->
              [participants[l] EXCEPT
                  !.last_active_at = NewLastActive(participants[l], db_comments,
                                                   db_reactions)]]
    /\ before' = participants
    /\ pc' = "final_dump_participants"
    /\ UNCHANGED <<feed, db_participants, db_comments, db_reactions, runs,
                   comments, reactions, scratch, start, last_feed, repeat>>

(* ------------------------- the feed between runs ----------------------- *)
Idle == pc \in {"idle", "done", "crashed"} /\ runs < MaxRuns

\* The next id of `order` the feed has not used yet, as a set.  Ids are
\* assigned upstream once: feed.gone holds the ids that left the feed.
NextId(order, used) ==
    {order[i] : i \in {j \in 1..Len(order) :
                         /\ order[j] \notin used
                         /\ \A k \in 1..(j - 1) : order[k] \in used}}

\* Somebody writes a review comment, at the first instant.
FeedAddComment ==
    /\ Idle
    /\ \E c \in NextId(CommentOrder, DOMAIN feed.comments \cup feed.gone),
          author \in Logins :
          feed' = [feed EXCEPT !.comments =
                      Override(@, [x \in {c} |->
                          [author |-> author, createdAt |-> 1,
                           lastEditedAt |-> NoTime]])]
    /\ UNCHANGED <<db_participants, db_comments, db_reactions, pc, runs, comments,
                   reactions, participants, scratch, before, start, last_feed, repeat>>

\* The author edits a review comment.
FeedEditComment ==
    /\ Idle
    /\ \E c \in DOMAIN feed.comments, t \in Times :
          /\ t > feed.comments[c].createdAt
          /\ t > feed.comments[c].lastEditedAt
          /\ feed' = [feed EXCEPT !.comments[c].lastEditedAt = t]
    /\ UNCHANGED <<db_participants, db_comments, db_reactions, pc, runs, comments,
                   reactions, participants, scratch, before, start, last_feed, repeat>>

\* Somebody reacts to a review comment.
FeedAddReaction ==
    /\ Idle
    /\ \E r \in NextId(ReactionOrder, DOMAIN feed.reactions \cup feed.gone),
          c \in DOMAIN feed.comments, user \in Logins,
          content \in Contents, t \in Times :
          /\ t >= feed.comments[c].createdAt
          /\ feed' = [feed EXCEPT !.reactions =
                         Override(@, [x \in {r} |->
                             [comment |-> c, user |-> user, content |-> content,
                              createdAt |-> t]])]
    /\ UNCHANGED <<db_participants, db_comments, db_reactions, pc, runs, comments,
                   reactions, participants, scratch, before, start, last_feed, repeat>>

\* A reaction is withdrawn: the next snapshot does not list it.
FeedRemoveReaction ==
    /\ Idle
    /\ \E r \in DOMAIN feed.reactions :
          feed' = [feed EXCEPT !.reactions = Without(@, {r}),
                               !.gone = @ \cup {r}]
    /\ UNCHANGED <<db_participants, db_comments, db_reactions, pc, runs, comments,
                   reactions, participants, scratch, before, start, last_feed, repeat>>

\* A review comment leaves the snapshot, and its reactions with it.
FeedRemoveComment ==
    /\ Idle
    /\ \E c \in DOMAIN feed.comments :
          LET rs == {r \in DOMAIN feed.reactions : feed.reactions[r].comment = c}
          IN feed' = [feed EXCEPT !.comments = Without(@, {c}),
                                  !.reactions = Without(@, rs),
                                  !.gone = @ \cup {c} \cup rs]
    /\ UNCHANGED <<db_participants, db_comments, db_reactions, pc, runs, comments,
                   reactions, participants, scratch, before, start, last_feed, repeat>>

(* ------------------------- save() that may raise ----------------------- *)
\* A dump in one transaction: a save() that raises undoes the others.
SavedAllOrNothing(table, objects, pk, failing) ==
    IF failing = {} THEN Saved(table, objects, pk) ELSE table

\* The table after the dump loop when save() raises for the objects under
\* the keys of `failing`: the except clause logs, the loop goes on.
SavedBut(table, objects, pk, failing) ==
    Saved(table, Without(objects, failing), pk)

\* The sets of keys for which save() may raise in one dump loop: at most
\* one object, in the first FaultyRuns runs.
Failing(objects) ==
    {S \in SUBSET DOMAIN objects :
        Cardinality(S) <= IF runs <= FaultyRuns THEN 1 ELSE 0}

DumpParticipantsFaulty ==
    /\ pc \in {"dump_participants", "final_dump_participants"}
    /\ \E failing \in Failing(participants) :
          db_participants' = SavedBut(db_participants, participants, "login",
                                      failing)
    /\ pc' = IF pc = "dump_participants" THEN "dump_comments"
             ELSE "final_dump_comments"
    /\ before' = participants
    /\ UNCHANGED <<feed, db_comments, db_reactions, runs, comments, reactions,
                   participants, scratch, start, last_feed, repeat>>

DumpCommentsFaulty ==
    /\ pc \in {"dump_comments", "final_dump_comments"}
    /\ \E failing \in Failing(comments) :
          db_comments' = SavedBut(db_comments, comments, "id", failing)
    /\ pc' = IF pc = "dump_comments" THEN "dump_reactions"
             ELSE "final_dump_reactions"
    /\ before' = participants
    /\ UNCHANGED <<feed, db_participants, db_reactions, runs, comments, reactions,
                   participants, scratch, start, last_feed, repeat>>

DumpReactionsFaulty ==
    /\ pc \in {"dump_reactions", "final_dump_reactions"}
    /\ \E failing \in Failing(reactions) :
          db_reactions' = SavedBut(db_reactions, reactions, "id", failing)
    /\ pc' = IF pc = "dump_reactions" THEN "update_score" ELSE "done"
    /\ before' = participants
    /\ UNCHANGED <<feed, db_participants, db_comments, runs, comments, reactions,
                   participants, scratch, start, last_feed, repeat>>

\* __update_rankings when the dump it starts with meets a save() that raises.
UpdateRankingsFaulty ==
    /\ pc = "update_rankings"
    /\ \E failing \in Failing(participants) :
          LET table == SavedBut(db_participants, participants, "login", failing)
              ranked == RankLoop(table, order_by(table), 1, 0, 0)
          IN /\ db_participants' = table
             /\ participants' = Override(participants, ranked)
    /\ before' = participants
    /\ pc' = "update_weight_factors"
    /\ UNCHANGED <<feed, db_comments, db_reactions, runs, comments, reactions,
                   scratch, start, last_feed, repeat>>

(* --------------------------- the specification ------------------------- *)
Init ==
    /\ feed = [comments |-> NoMap, reactions |-> NoMap, gone |-> {}]
    /\ db_participants = NoMap
    /\ db_comments = NoMap
    /\ db_reactions = NoMap
    /\ pc = "idle"
    /\ runs = 0
    /\ comments = NoMap
    /\ reactions = NoMap
    /\ participants = NoMap
    /\ scratch = NoMap
    /\ before = NoMap
    /\ start = NoMap
    /\ last_feed = [comments |-> NoMap, reactions |-> NoMap, gone |-> {}]
    /\ repeat = FALSE

Next ==
    \/ FeedAddComment
    \/ FeedEditComment
    \/ FeedAddReaction
    \/ StartRun
    \/ LoadParticipants
    \/ LoadComments
    \/ LoadReactions
    \/ DumpParticipants
    \/ DumpComments
    \/ DumpReactions
    \/ UpdateScore
    \/ UpdateRankings
    \/ UpdateWeightFactors
    \/ UpdateTime

Spec == Init /\ [][Next]_vars

\* The same program on a feed whose snapshots also lose entries.
NextChurn ==
    \/ Next
    \/ FeedRemoveReaction
    \/ FeedRemoveComment

SpecChurn == Init /\ [][NextChurn]_vars

\* The same program on tables that may refuse a save().
NextFaulty ==
    \/ FeedAddComment
    \/ FeedEditComment
    \/ FeedAddReaction
    \/ StartRun
    \/ LoadParticipants
    \/ LoadComments
    \/ LoadReactions
    \/ DumpParticipantsFaulty
    \/ DumpCommentsFaulty
    \/ DumpReactionsFaulty
    \/ UpdateScore
    \/ UpdateRankingsFaulty
    \/ UpdateWeightFactors
    \/ UpdateTime

SpecFaulty == Init /\ [][NextFaulty]_vars

(* ------------------------------------------------------------------------ *)
(*                               The claims                                 *)
(* ------------------------------------------------------------------------ *)
\* The stage that has just ended, by the stage that comes next.
AfterPunishment == pc = "load_reactions"
AfterScore == pc = "update_rankings"
AfterRankings == pc \in {"update_weight_factors", "update_time",
                         "final_dump_participants", "final_dump_comments",
                         "final_dump_reactions", "done"}
AfterWeightFactors == pc \in {"update_time", "final_dump_participants",
                              "final_dump_comments", "final_dump_reactions",
                              "done"}

\* What a stage added to field f of participant l.
Delta(l, f) == participants[l][f] - before[l][f]

\* Reaction r was created strictly before the checkpoint participant l
\* carried into this run.
Old(l, r) ==
    /\ before[l].last_active_at # NoTime
    /\ db_reactions[r].created_at < before[l].last_active_at

RecentIn(l, content) ==
    {r \in DOMAIN db_reactions : /\ db_reactions[r].receiver = l
                                 /\ db_reactions[r].content = content
                                 /\ ~Old(l, r)}
RecentOut(l, content) ==
    {r \in DOMAIN db_reactions : /\ db_reactions[r].giver = l
                                 /\ db_reactions[r].content = content
                                 /\ ~Old(l, r)}

\* The weight factor the table holds for the giver of reaction r.
GiverWeight(r) == db_participants[db_reactions[r].giver].weight_factor
Weights(S) == Sum([r \in S |-> GiverWeight(r)], S)

\* C1: a run that repeats a complete run on the same feed leaves score,
\* pos_in, neg_in, pos_out and neg_out of every participant as the score
\* stage found them.
C1_Idempotent ==
    (repeat /\ AfterScore) =>
        \A l \in DOMAIN participants :
            /\ Delta(l, "score") = 0
            /\ Delta(l, "pos_in") = 0
            /\ Delta(l, "neg_in") = 0
            /\ Delta(l, "pos_out") = 0
            /\ Delta(l, "neg_out") = 0

\* C2: the score stage adds to the counters of a participant no more than
\* the reactions that are not older than the participant's checkpoint
\* account for, and the score moves by what these additions amount to.
C2_OldReactionsNotCounted ==
    AfterScore =>
        \A l \in DOMAIN participants :
            /\ Delta(l, "pos_in") <= Cardinality(RecentIn(l, "THUMBS_UP"))
            /\ Delta(l, "neg_in") <= Cardinality(RecentIn(l, "THUMBS_DOWN"))
            /\ Delta(l, "pos_out") <= Cardinality(RecentOut(l, "THUMBS_UP"))
            /\ Delta(l, "neg_out") <= Cardinality(RecentOut(l, "THUMBS_DOWN"))
            /\ Delta(l, "weighted_pos_in") <= Weights(RecentIn(l, "THUMBS_UP"))
            /\ Delta(l, "weighted_neg_in") <= Weights(RecentIn(l, "THUMBS_DOWN"))
            /\ Delta(l, "score") =
                  Delta(l, "weighted_pos_in") - Delta(l, "weighted_neg_in")
                  + C1 * Delta(l, "pos_out") + C2 * Delta(l, "neg_out")

\* C2, its case: the score stage has run for a participant who received a
\* thumbs-up older than the checkpoint, from a giver of positive weight.
C2_Witness ==
    /\ AfterScore
    /\ \E l \in DOMAIN participants, r \in DOMAIN db_reactions :
          /\ db_reactions[r].receiver = l
          /\ db_reactions[r].content = "THUMBS_UP"
          /\ Old(l, r)
          /\ db_reactions[r].giver # Null
          /\ GiverWeight(r) > 0

\* C3: once the weight factors are recomputed, every weight factor is 0 or
\* lies between 0.1 and 1.0, in memory and, after the run, in the table.
C3_WeightFactorBounds ==
    /\ AfterWeightFactors =>
          \A l \in DOMAIN participants :
              \/ participants[l].weight_factor = 0
              \/ /\ participants[l].weight_factor >= Floor
                 /\ participants[l].weight_factor <= One
    /\ pc = "done" =>
          \A l \in DOMAIN db_participants :
              \/ db_participants[l].weight_factor = 0
              \/ /\ db_participants[l].weight_factor >= Floor
                 /\ db_participants[l].weight_factor <= One

\* C3, its case: weight factors recomputed over a negative, a zero and a
\* positive score.
C3_Witness ==
    /\ AfterWeightFactors
    /\ \E l1, l2, l3 \in DOMAIN participants :
          /\ participants[l1].score < 0
          /\ participants[l2].score = 0
          /\ participants[l3].score > 0

\* The highest score among the participants in memory.
TopScore ==
    CHOOSE m \in {participants[l].score : l \in DOMAIN participants} :
        \A l \in DOMAIN participants : participants[l].score <= m

\* The holders of the top score, and nobody else, have weight factor 1.0.
TopHasFullWeight ==
    \A l \in DOMAIN participants :
        /\ participants[l].score = TopScore => participants[l].weight_factor = One
        /\ participants[l].score < TopScore => participants[l].weight_factor # One

DenselyRanked(table) ==
    \A l1, l2 \in DOMAIN table :
        LET s1 == table[l1].score
            s2 == table[l2].score
            adjacent == s1 > s2 /\ ~\E l3 \in DOMAIN table :
                                      s1 > table[l3].score /\ table[l3].score > s2
        IN /\ (s1 = s2) <=> (table[l1].rank = table[l2].rank)
           /\ adjacent <=> (table[l2].rank = table[l1].rank + 1)
           /\ (\A l3 \in DOMAIN table : table[l3].score <= s1)
                  => table[l1].rank = 1

\* C5: once the ranks are assigned the participants are densely ranked by
\* score alone, in memory and, after the run, in the table.
C5_DenseRanking ==
    /\ AfterRankings => DenselyRanked(participants)
    /\ pc = "done" => DenselyRanked(db_participants)

\* C5, its case: ranks assigned to two participants of equal score and
\* different pos_in, and to a third of another score.
C5_Witness ==
    /\ AfterRankings
    /\ \E l1, l2, l3 \in DOMAIN participants :
          /\ l1 # l2
          /\ participants[l1].score = participants[l2].score
          /\ participants[l1].pos_in # participants[l2].pos_in
          /\ participants[l3].score # participants[l1].score

\* The reactions of the table that were created before the last edit of
\* the loaded comment c.
Offending(c) ==
    {r \in DOMAIN db_reactions :
        /\ db_reactions[r].review = c
        /\ comments[c].last_edited_at # NoTime
        /\ db_reactions[r].created_at < comments[c].last_edited_at}

\* The comments of author l that were edited after a reaction.
LateEdited(l) ==
    {c \in DOMAIN comments : comments[c].author = l /\ Offending(c) # {}}

\* C6: loading the comments takes 0.5 off an author's score once for each
\* comment edited after a reaction, however many reactions precede the edit.
C6_PunishedOncePerComment ==
    AfterPunishment =>
        \A l \in DOMAIN participants :
            before[l].score - participants[l].score
                = Penalty * Cardinality(LateEdited(l))

\* C6, its case: a comment edited after two of its reactions is loaded and
\* its author has lost 0.5.
C6_Witness ==
    /\ AfterPunishment
    /\ \E c \in DOMAIN comments :
          /\ Cardinality(Offending(c)) >= 2
          /\ comments[c].author \in DOMAIN participants
          /\ Delta(comments[c].author, "score") = -Penalty

\* C7 as stated: for each comment the rule fires on, score and the
\* punishment counter of the author both move by -0.5; they do not move
\* otherwise.
C7_PunishmentSubtractedFromBoth ==
    AfterPunishment =>
        \A l \in DOMAIN participants :
            /\ Delta(l, "score") = -(Penalty * Cardinality(LateEdited(l)))
            /\ Delta(l, "punishment") = -(Penalty * Cardinality(LateEdited(l)))

\* C7 as amended: for each comment the rule fires on, the score of the
\* author moves by -0.5 and the punishment counter by +0.5; they do not
\* move otherwise.
C7_PunishmentEffect ==
    AfterPunishment =>
        \A l \in DOMAIN participants :
            /\ Delta(l, "punishment") = Penalty * Cardinality(LateEdited(l))
            /\ Delta(l, "score") + Delta(l, "punishment") = 0

\* C7, its case: the rule has fired for one participant and not for another.
C7_Witness ==
    /\ AfterPunishment
    /\ \E l1, l2 \in DOMAIN participants :
          /\ LateEdited(l1) # {}
          /\ Delta(l1, "punishment") = Penalty
          /\ LateEdited(l2) = {}
          /\ Delta(l2, "punishment") = 0

\* C8: the score stage adds S = P1 - N1 + 0.05 * P2 + 0.2 * N2 to the score
\* it found, P1 and N1 the givers' weights over the unfiltered thumbs up
\* and down received, P2 and N2 the numbers of unfiltered thumbs up and
\* down given; pos_in and neg_in grow by the numbers received.
C8_ScoreDelta ==
    AfterScore =>
        \A l \in DOMAIN participants :
            /\ participants[l].score =
                  before[l].score
                  + Weights(RecentIn(l, "THUMBS_UP"))
                  - Weights(RecentIn(l, "THUMBS_DOWN"))
                  + 50 * Cardinality(RecentOut(l, "THUMBS_UP"))
                  + 200 * Cardinality(RecentOut(l, "THUMBS_DOWN"))
            /\ participants[l].pos_in =
                  before[l].pos_in + Cardinality(RecentIn(l, "THUMBS_UP"))
            /\ participants[l].neg_in =
                  before[l].neg_in + Cardinality(RecentIn(l, "THUMBS_DOWN"))

\* C8, its case: a participant of non-zero score who gave nothing has
\* received one thumbs up and one thumbs down from givers of positive weight.
C8_Witness ==
    /\ AfterScore
    /\ \E l \in DOMAIN participants :
          /\ Cardinality(RecentIn(l, "THUMBS_UP")) = 1
          /\ Cardinality(RecentIn(l, "THUMBS_DOWN")) = 1
          /\ Weights(RecentIn(l, "THUMBS_UP")) > 0
          /\ Weights(RecentIn(l, "THUMBS_DOWN")) > 0
          /\ give(db_reactions, l) = {}
          /\ before[l].score # 0
          /\ Delta(l, "pos_in") = 1
          /\ Delta(l, "neg_in") = 1

\* The row of comment c as this run found it.
Found(c) == IF c \in DOMAIN start THEN start[c] ELSE NewComment(c)

\* The reactions of the given kind the score stage folded in on comment c.
Folded(c, content) ==
    {r \in DOMAIN scratch : scratch[r].id = c /\ db_reactions[r].content = content}

\* C9: after a complete run the row of every comment has grown by what the
\* score stage folded in on it: pos and neg by the numbers of thumbs up and
\* down, weighted_pos and weighted_neg by their weights, score by the
\* weights up minus the weights down.
C9_CommentAccumulationPersisted ==
    pc = "done" =>
        \A c \in DOMAIN comments :
            LET up == Folded(c, "THUMBS_UP")
                down == Folded(c, "THUMBS_DOWN")
                wup == Sum([r \in up |-> scratch[r].weighted_pos
                                          - Found(c).weighted_pos], up)
                wdown == Sum([r \in down |-> scratch[r].weighted_neg
                                              - Found(c).weighted_neg], down)
            IN /\ db_comments[c].pos = Found(c).pos + Cardinality(up)
               /\ db_comments[c].neg = Found(c).neg + Cardinality(down)
               /\ db_comments[c].weighted_pos = Found(c).weighted_pos + wup
               /\ db_comments[c].weighted_neg = Found(c).weighted_neg + wdown
               /\ db_comments[c].score = Found(c).score + wup - wdown

\* The logins the feed of this run names, as author or as reacting user.
FeedLogins ==
    {last_feed.comments[c].author : c \in DOMAIN last_feed.comments}
        \cup {last_feed.reactions[r].user : r \in DOMAIN last_feed.reactions}

\* C10: the constructor registers exactly the authors and reacting users
\* whose own login is not empty.
C10_RegistersNonEmptyLogins ==
    pc = "load_participants" => DOMAIN participants = FeedLogins \ {Empty}

\* C11: a run on a feed that names a deleted account, as the author of a
\* comment or as the user of a reaction, does not end in an exception.
C11_DeletedAccountsNeverFail ==
    Empty \in FeedLogins => pc # "crashed"

\* C13: every thumbs up the score stage folds in, given by a participant
\* whose weight factor an earlier run has computed, adds at least 0.1 to P1.
C13_PositiveReactionWorthFloor ==
    AfterScore =>
        \A l \in DOMAIN participants :
            \A r \in RecentIn(l, "THUMBS_UP") :
                db_participants[db_reactions[r].giver].rank # 0
                    => GiverWeight(r) >= Floor

\* C14: in a run that repeats a complete run on the same feed, an author
\* who has been punished already is not punished again.
C14_PunishedOnceInTotal ==
    (repeat /\ AfterPunishment) =>
        \A l \in DOMAIN participants :
            before[l].punishment > 0 => Delta(l, "punishment") = 0

\* The reactions of this run's feed that were created before the last edit
\* of the loaded comment c.
Observed(c) ==
    {r \in DOMAIN reactions :
        /\ reactions[r].comment_id = c
        /\ comments[c].last_edited_at # NoTime
        /\ reactions[r].createdAt < comments[c].last_edited_at}

\* C15: the run whose feed shows a comment edited after one of its
\* reactions takes the 0.5 off the author's score in that same run.
C15_PunishedWhenObserved ==
    AfterPunishment =>
        \A c \in DOMAIN comments :
            (Observed(c) # {} /\ comments[c].author \in DOMAIN participants)
                => Delta(comments[c].author, "score") <= -Penalty

\* max(1.0, the highest score among the participants in memory)
Ceiling ==
    LET S == {One} \cup {participants[l].score : l \in DOMAIN participants}
    IN CHOOSE m \in S : \A x \in S : x <= m

C17_Trend ==
    pc = "update_weight_factors" =>
        \A l \in DOMAIN participants :
            /\ participants[l].rank # 0
            /\ participants[l].trend =
                  IF before[l].rank # 0
                  THEN <<before[l].rank - participants[l].rank>>
                  ELSE <<>>

\* C17, its case: the rank loop has run over a participant whose rank did
\* not move, one whose rank moved and one who had no rank before.
C17_Witness ==
    /\ pc = "update_weight_factors"
    /\ \E l1, l2, l3 \in DOMAIN participants :
          /\ before[l1].rank # 0
          /\ participants[l1].trend = <<0>>
          /\ before[l2].rank # 0
          /\ participants[l2].trend # <<0>>
          /\ before[l3].rank = 0
          /\ participants[l3].rank # 0

\* The times at which participant l is on record in the tables: created_at
\* and last_edited_at of the comments authored, created_at of the reactions
\* given and of the reactions received.
Activity(l) ==
    ({db_comments[c].created_at : c \in comment_set(db_comments, l)}
     \cup {db_comments[c].last_edited_at : c \in comment_set(db_comments, l)}
     \cup {db_reactions[r].created_at : r \in give(db_reactions, l)}
     \cup {db_reactions[r].created_at : r \in receive(db_reactions, l)})
        \ {NoTime}

\* The latest time of a set of times; NoTime for none.
Latest(S) == IF S = {} THEN NoTime ELSE CHOOSE t \in S : \A x \in S : x <= t

\* C20: after a complete run last_active_at of every participant is the
\* latest time at which the participant is on record (unset for none), and
\* the stage that recomputes it never moves it back.
C20_WatermarkIsMaximum ==
    /\ pc = "done" =>
          \A l \in DOMAIN db_participants :
              db_participants[l].last_active_at = Latest(Activity(l))
    /\ pc = "final_dump_participants" =>
          \A l \in DOMAIN participants :
              participants[l].last_active_at >= before[l].last_active_at

\* C20, its case: a second complete run over a participant whose reactions
\* are listed with the latest first, the watermark being that latest time.
C20_Witness ==
    /\ pc = "done"
    /\ runs >= 2
    /\ \E l \in DOMAIN db_participants, r1, r2 \in DOMAIN db_reactions :
          /\ db_reactions[r1].giver = l
          /\ db_reactions[r2].giver = l
          /\ r1 = ReactionOrder[1]
          /\ r2 = ReactionOrder[2]
          /\ db_reactions[r1].created_at > db_reactions[r2].created_at
          /\ db_participants[l].last_active_at = db_reactions[r1].created_at

\* The participants of the table that this run's feed does not name.
Inactive == DOMAIN db_participants \ FeedLogins

\* The weight factors of a table are those its scores give.
Recomputed(table) ==
    LET S == {One} \cup {table[l].score : l \in DOMAIN table}
        max_score == CHOOSE m \in S : \A x \in S : x <= m
    IN \A l \in DOMAIN table :
          LET exact == Floor * max_score + Slope * table[l].score
              w == table[l].weight_factor
          IN IF table[l].score < 0 THEN w = 0
             ELSE w * max_score <= exact /\ exact < (w + 2) * max_score

\* C18: after a complete run every participant of the table, named by this
\* run's feed or not, is in memory, has a rank, the ranks being dense over
\* the scores of all, and has the weight factor its score gives.
C18_EveryParticipantReranked ==
    pc = "done" =>
        /\ DOMAIN db_participants \subseteq DOMAIN participants
        /\ \A l \in DOMAIN db_participants :
              /\ db_participants[l].rank # 0
              /\ db_participants[l] = participants[l]
        /\ DenselyRanked(db_participants)
        /\ Recomputed(db_participants)

\* C18, its case: a complete run in which a participant the feed no longer
\* names has moved to another rank.
C18_Witness ==
    /\ pc = "done"
    /\ \E l \in Inactive :
          /\ db_participants[l].trend # <<>>
          /\ db_participants[l].trend # <<0>>

\* C19: a run whose feed lacks a comment the table holds does not end in an
\* exception (the comment loader is the first stage that can raise one in
\* such a run).
C19_LoaderSkipsAbsentComments ==
    pc = "crashed" => DOMAIN db_comments \subseteq DOMAIN last_feed.comments

\* The objects of a dict whose row differs from the object.
Unsaved(table, objects, pk) ==
    {k \in DOMAIN objects : table[objects[k][pk]] # objects[k]}

\* C12: when save() raises for one object of a dump loop, the loop saves
\* every other object and the next stage follows; a run ends in an
\* exception only for the reasons it does when every save() succeeds.
C12_SaveFailuresIsolated ==
    /\ pc \in {"dump_comments", "final_dump_comments"} =>
          Cardinality(Unsaved(db_participants, participants, "login")) <= 1
    /\ pc \in {"dump_reactions", "final_dump_reactions"} =>
          Cardinality(Unsaved(db_comments, comments, "id")) <= 1
    /\ pc \in {"update_score", "done"} =>
          Cardinality(Unsaved(db_reactions, reactions, "id")) <= 1
    /\ pc = "crashed" => Empty \in FeedLogins

\* C12, its case: the first run has come to its end although one
\* participant could not be saved in the last dump; another one was saved,
\* with the rank this run gave it.
C12_Witness ==
    /\ pc = "done"
    /\ runs = 1
    /\ \E k1, k2 \in DOMAIN participants :
          /\ db_participants[k1] # participants[k1]
          /\ db_participants[k2] = participants[k2]
          /\ db_participants[k2].rank # 0

\* The stages of a run up to and including the score stage.
UpToScore == {"load_participants", "load_comments", "load_reactions",
              "dump_participants", "dump_comments", "dump_reactions",
              "update_score"}

\* A step of a stage up to the score stage leaves last_active_at and
\* weight_factor of every row of Participant as they were, and every
\* participant in memory with the last_active_at and weight_factor of its row.
KeepsCheckpointAndWeights ==
    pc \in UpToScore =>
        /\ \A l \in DOMAIN db_participants :
              /\ db_participants'[l].last_active_at
                    = db_participants[l].last_active_at
              /\ db_participants'[l].weight_factor
                    = db_participants[l].weight_factor
        /\ pc' # "crashed" =>
              \A l \in DOMAIN participants' :
                  /\ participants'[l].last_active_at
                        = db_participants'[l].last_active_at
                  /\ participants'[l].weight_factor
                        = db_participants'[l].weight_factor

\* C21: no stage up to and including the score stage changes last_active_at
\* or weight_factor of a participant, in the table or in memory: the
\* checkpoint and the giver weights the score stage uses are those the
\* table held when the run began.
C21_CheckpointAndWeightsOfPreviousRun == [][KeepsCheckpointAndWeights]_vars

\* C21, its case: the score stage of a later run has folded in a thumbs up
\* that is newer than the receiver's checkpoint, from a giver of positive
\* weight, and the checkpoint in memory is still the one of the table.
C21_Witness ==
    /\ AfterScore
    /\ runs >= 2
    /\ \E l \in DOMAIN participants, r \in DOMAIN db_reactions :
          /\ r \in RecentIn(l, "THUMBS_UP")
          /\ participants[l].last_active_at # NoTime
          /\ db_reactions[r].created_at > participants[l].last_active_at
          /\ participants[l].last_active_at = db_participants[l].last_active_at
          /\ GiverWeight(r) > 0
          /\ Delta(l, "weighted_pos_in") > 0

\* The reactions of the given kind in the table that participant l received
\* and gave.
Received(l, content) ==
    {r \in DOMAIN db_reactions : /\ db_reactions[r].receiver = l
                                 /\ db_reactions[r].content = content}
Given(l, content) ==
    {r \in DOMAIN db_reactions : /\ db_reactions[r].giver = l
                                 /\ db_reactions[r].content = content}

\* C22: once the score stage has run, every thumbs up and thumbs down of the
\* table has been counted at least once: pos_in / neg_in of the receiver
\* and pos_out / neg_out of the giver are no lower than the numbers of such
\* reactions received and given.
C22_NoReactionLost ==
    AfterScore =>
        \A l \in DOMAIN participants :
            /\ participants[l].pos_in >= Cardinality(Received(l, "THUMBS_UP"))
            /\ participants[l].neg_in >= Cardinality(Received(l, "THUMBS_DOWN"))
            /\ participants[l].pos_out >= Cardinality(Given(l, "THUMBS_UP"))
            /\ participants[l].neg_out >= Cardinality(Given(l, "THUMBS_DOWN"))

====
